---- MODULE Spec2Model ----
(***************************************************************************)
(* Model of the purchase analytics and prediction services of              *)
(* smartshop-predictor.                                                    *)
(*                                                                         *)
(* Values.  Time is counted in ticks, TicksPerDay ticks to the day, so     *)
(* that timedelta.days (a floor) is visible.  A Python float is an exact   *)
(* rational <<numerator, denominator>> in lowest terms with a positive     *)
(* denominator; a DateTime column holds a rational number of ticks in the  *)
(* same form.  Python's None is the empty tuple.                           *)
(***************************************************************************)
EXTENDS Integers, Sequences, FiniteSets, TLC

(***************************************************************************)
(* Bounds of the model.                                                    *)
(***************************************************************************)
TicksPerDay == 2
MaxPurchases == 3
MaxLimit == 2
SummaryLimit == 999
StatusMaxSpan == 20
StatusMaxNow == 40

Users == {1, 2}
Keys == {<<1, "milk">>, <<1, "soap">>, <<2, "milk">>}
\* purchase_date values a caller supplies: on days 0, 1 and 4
PurchaseTimes == {0, TicksPerDay + 1, 4 * TicksPerDay}
\* readings of datetime.utcnow(): on days 1 and 7
NowTimes == {TicksPerDay + 1, 7 * TicksPerDay}
\* urgency_threshold arguments of get_predicted_purchases
Thresholds == {<<0, 1>>, <<75, 1>>}

\* the database sessions that may run update_analytics at the same time
Sessions == {1, 2}

VARIABLES purchase_records, product_analytics, now, last_call, sessions

vars == <<purchase_records, product_analytics, now, last_call, sessions>>

None == <<>>

(***************************************************************************)
(* Python numbers.                                                         *)
(***************************************************************************)
Abs(i) == IF i < 0 THEN -i ELSE i

RECURSIVE GCD(_, _)
GCD(a, b) == IF b = 0 THEN a ELSE GCD(b, a % b)

\* int / int and float / float: true division
Rat(n, d) ==
    LET s == IF d < 0 THEN -1 ELSE 1
        g == GCD(Abs(n), Abs(d))
    IN  <<(s * n) \div g, (s * d) \div g>>

ToFloat(i) == <<i, 1>>
RatMul(a, b) == Rat(a[1] * b[1], a[2] * b[2])
RatDiv(a, b) == Rat(a[1] * b[2], a[2] * b[1])
RatAdd(a, b) == Rat(a[1] * b[2] + b[1] * a[2], a[2] * b[2])
RatLt(a, b) == a[1] * b[2] < b[1] * a[2]
RatLeq(a, b) == a[1] * b[2] <= b[1] * a[2]

\* bool(x) of an Optional[float]: None and 0.0 are both falsy
Truthy(x) == x # None /\ x[1] # 0

\* int(x): truncation toward zero
ToInt(x) == IF x[1] >= 0 THEN x[1] \div x[2] ELSE -((-x[1]) \div x[2])

\* format(x, ".0f"): round to nearest, ties to even
RoundHalfEven(x) ==
    LET fl == x[1] \div x[2]
        r2 == 2 * (x[1] - fl * x[2])
    IN  IF r2 < x[2] THEN fl
        ELSE IF r2 > x[2] THEN fl + 1
        ELSE IF fl % 2 = 0 THEN fl ELSE fl + 1

\* the value of a DateTime column for the instant t
DateTime(t) == <<t, 1>>

\* timedelta.days
Days(delta) == delta \div TicksPerDay

SetMin(S) == CHOOSE m \in S : \A x \in S : m <= x

RECURSIVE SeqMin(_)
SeqMin(s) ==
    IF Len(s) = 1 THEN s[1]
    ELSE LET m == SeqMin(Tail(s)) IN IF s[1] < m THEN s[1] ELSE m

RECURSIVE SeqMax(_)
SeqMax(s) ==
    IF Len(s) = 1 THEN s[1]
    ELSE LET m == SeqMax(Tail(s)) IN IF s[1] > m THEN s[1] ELSE m

RECURSIVE SeqSum(_)
SeqSum(s) == IF s = <<>> THEN 0 ELSE s[1] + SeqSum(Tail(s))

(***************************************************************************)
(* The purchase_records table: the multiset of its (user_id, item_name,    *)
(* purchase_date) rows, a function from the rows present to the number of  *)
(* copies of each.                                                         *)
(***************************************************************************)
EmptyTable == [r \in {} |-> 0]

RECURSIVE SumOver(_, _)
SumOver(table, rows) ==
    IF rows = {} THEN 0
    ELSE LET r == CHOOSE r \in rows : TRUE
         IN  table[r] + SumOver(table, rows \ {r})

TotalRows(table) == SumOver(table, DOMAIN table)

\* session.add(PurchaseRecord(user_id, item_name, purchase_date)); commit
InsertPurchase(table, row) ==
    [r \in DOMAIN table \cup {row} |->
        IF r \in DOMAIN table
        THEN (IF r = row THEN table[r] + 1 ELSE table[r])
        ELSE 1]

Copies(t, n) == [i \in 1..n |-> t]

\* ORDER BY purchase_date ASC over the rows of one key
RECURSIVE OrderByDateAsc(_, _, _)
OrderByDateAsc(table, key, dates) ==
    IF dates = {} THEN <<>>
    ELSE LET t == SetMin(dates)
         IN  Copies(t, table[<<key[1], key[2], t>>])
                 \o OrderByDateAsc(table, key, dates \ {t})

\* select(PurchaseRecord).where(user_id, item_name).order_by(purchase_date.asc())
SelectPurchases(table, key) ==
    OrderByDateAsc(table, key,
                   {r[3] : r \in {x \in DOMAIN table : x[1] = key[1] /\ x[2] = key[2]}})

\* select(func.count(purchase_date)).where(user_id): no DISTINCT
CountRowsOfUser(table, user_id) ==
    SumOver(table, {r \in DOMAIN table : r[1] = user_id})

\* select(func.count(func.distinct(purchase_date))).where(user_id)
CountDistinctDates(table, user_id) ==
    Cardinality({r[3] : r \in {x \in DOMAIN table : x[1] = user_id}})

(***************************************************************************)
(* PurchaseAnalyticsService.update_analytics: the metrics.                 *)
(***************************************************************************)
RECURSIVE Intervals(_)
Intervals(purchases) ==
    IF Len(purchases) < 2 THEN <<>>
    ELSE <<Days(purchases[2] - purchases[1])>> \o Intervals(Tail(purchases))

AvgDaysMeanOfGaps(purchases) ==
    IF Len(purchases) > 1
    THEN Rat(SeqSum(Intervals(purchases)), Len(purchases) - 1)
    ELSE None

AvgDaysZeroForSingle(purchases) ==
    IF Len(purchases) > 1
    THEN Rat(Days(purchases[Len(purchases)] - purchases[1]), Len(purchases) - 1)
    ELSE ToFloat(0)

AvgDays(purchases) ==
    IF Len(purchases) > 1
    THEN Rat(Days(purchases[Len(purchases)] - purchases[1]), Len(purchases) - 1)
    ELSE None

DaysSinceLast(purchases, utcnow) == Days(utcnow - purchases[Len(purchases)])

MinInterval(intervals) == IF intervals # <<>> THEN ToFloat(SeqMin(intervals)) ELSE None
MaxInterval(intervals) == IF intervals # <<>> THEN ToFloat(SeqMax(intervals)) ELSE None

UrgencyScore(avg_days, days_since_last) ==
    IF Truthy(avg_days) /\ RatLt(ToFloat(0), avg_days)
    THEN RatMul(RatDiv(ToFloat(days_since_last), avg_days), ToFloat(100))
    ELSE ToFloat(0)

\* result_all.scalar() or 1
TotalPurchaseDatesAllRows(table, user_id) ==
    LET c == CountRowsOfUser(table, user_id) IN IF c # 0 THEN c ELSE 1

TotalPurchaseDates(table, user_id) ==
    LET c == CountDistinctDates(table, user_id) IN IF c # 0 THEN c ELSE 1

RepurchaseProbability(total_purchases, total_purchase_dates) ==
    RatMul(Rat(total_purchases, total_purchase_dates), ToFloat(100))

\* last_purchase_date + timedelta(days=avg_days), in ticks
EstimatedNext(last_purchase_date, avg_days) ==
    IF Truthy(avg_days)
    THEN RatAdd(DateTime(last_purchase_date), RatMul(avg_days, ToFloat(TicksPerDay)))
    ELSE None

\* float(x) if x else None
FloatOrNone(x) == IF Truthy(x) THEN x ELSE None

\* the column values update_analytics assigns, from the purchases and the
\* count it has read and its two readings of the clock
FieldsFrom(purchases, total_purchase_dates, utcnow, analyzed_at) ==
    LET avg_days == AvgDays(purchases)
        days_since_last == DaysSinceLast(purchases, utcnow)
        intervals == Intervals(purchases)
    IN  [total_purchases |-> Len(purchases),
         last_purchase_date |-> DateTime(purchases[Len(purchases)]),
         avg_days_between_purchases |-> avg_days,
         days_since_last_purchase |-> ToFloat(days_since_last),
         min_days_interval |-> FloatOrNone(MinInterval(intervals)),
         max_days_interval |-> FloatOrNone(MaxInterval(intervals)),
         repurchase_urgency |-> UrgencyScore(avg_days, days_since_last),
         repurchase_probability |->
             RepurchaseProbability(Len(purchases), total_purchase_dates),
         estimated_next_purchase_date |->
             EstimatedNext(purchases[Len(purchases)], avg_days),
         last_analyzed_at |-> DateTime(analyzed_at)]

\* the same when nothing else runs between the reads
ComputedFields(table, key, utcnow) ==
    FieldsFrom(SelectPurchases(table, key), TotalPurchaseDates(table, key[1]),
               utcnow, utcnow)

\* select(ProductAnalytics).where(user_id, product_name)
SelectAnalytics(rows, key) ==
    {a \in rows : a.user_id = key[1] /\ a.product_name = key[2]}

\* result.scalars().first()
First(rows) == IF rows = {} THEN None ELSE CHOOSE a \in rows : TRUE

\* ProductAnalytics(user_id=..., product_name=...) with its column defaults
NewAnalytics(key) == [user_id |-> key[1], product_name |-> key[2], is_seasonal |-> FALSE]

\* the row as written by the assignments of update_analytics
WrittenRow(existing, key, fields) ==
    LET base == IF existing = None THEN NewAnalytics(key) ELSE existing
    IN  [f \in DOMAIN base \cup DOMAIN fields |->
            IF f \in DOMAIN fields THEN fields[f] ELSE base[f]]

(***************************************************************************)
(* ProductAnalytics: the presentation methods.                             *)
(***************************************************************************)
StatusStrictAt85(repurchase_urgency) ==
    IF RatLeq(ToFloat(100), repurchase_urgency) THEN "OVERDUE"
    ELSE IF RatLt(ToFloat(85), repurchase_urgency) THEN "URGENT"
    ELSE IF RatLeq(ToFloat(70), repurchase_urgency) THEN "SOON"
    ELSE IF RatLeq(ToFloat(50), repurchase_urgency) THEN "UPCOMING"
    ELSE "OPTIONAL"

get_urgency_status(repurchase_urgency) ==
    IF RatLeq(ToFloat(100), repurchase_urgency) THEN "OVERDUE"
    ELSE IF RatLeq(ToFloat(85), repurchase_urgency) THEN "URGENT"
    ELSE IF RatLeq(ToFloat(70), repurchase_urgency) THEN "SOON"
    ELSE IF RatLeq(ToFloat(50), repurchase_urgency) THEN "UPCOMING"
    ELSE "OPTIONAL"

get_prediction_message(a) ==
    IF Truthy(a.avg_days_between_purchases) /\ Truthy(a.days_since_last_purchase)
    THEN [text |-> "You usually buy",
          product_name |-> a.product_name,
          every |-> RoundHalfEven(a.avg_days_between_purchases),
          ago |-> RoundHalfEven(a.days_since_last_purchase)]
    ELSE [text |-> "Not enough data", product_name |-> a.product_name]

\* datetime.isoformat() of an Optional[datetime]
IsoFormatOrNone(t) == IF t # None THEN <<"iso", t>> ELSE None

\* int(x or 0)
IntOrZero(x) == IF Truthy(x) THEN ToInt(x) ELSE 0

(***************************************************************************)
(* PurchasePredictionService.                                              *)
(***************************************************************************)
\* the orders in which the database may scan a set of rows
ScanOrders(rows) ==
    {s \in [1..Cardinality(rows) -> rows] :
        \A i, j \in 1..Cardinality(rows) : i # j => s[i] # s[j]}

\* WHERE user_id = .. AND repurchase_urgency >= .. AND repurchase_probability > 0
WherePredicted(rows, user_id, urgency_threshold) ==
    {a \in rows : /\ a.user_id = user_id
                  /\ RatLeq(urgency_threshold, a.repurchase_urgency)
                  /\ RatLt(ToFloat(0), a.repurchase_probability)}

RECURSIVE InsertAsc(_, _)
InsertAsc(sorted, a) ==
    IF sorted = <<>> THEN <<a>>
    ELSE IF RatLt(a.repurchase_urgency, sorted[1].repurchase_urgency)
         THEN <<a>> \o sorted
         ELSE <<sorted[1]>> \o InsertAsc(Tail(sorted), a)

RECURSIVE InsertDesc(_, _)
InsertDesc(sorted, a) ==
    IF sorted = <<>> THEN <<a>>
    ELSE IF RatLt(sorted[1].repurchase_urgency, a.repurchase_urgency)
         THEN <<a>> \o sorted
         ELSE <<sorted[1]>> \o InsertDesc(Tail(sorted), a)

RECURSIVE SortAsc(_)
SortAsc(scan) ==
    IF scan = <<>> THEN <<>>
    ELSE InsertAsc(SortAsc(SubSeq(scan, 1, Len(scan) - 1)), scan[Len(scan)])

RECURSIVE SortDesc(_)
SortDesc(scan) ==
    IF scan = <<>> THEN <<>>
    ELSE InsertDesc(SortDesc(SubSeq(scan, 1, Len(scan) - 1)), scan[Len(scan)])

\* ORDER BY repurchase_urgency ASC (not what the query asks for)
OrderByUrgencyAsc(scan) == SortAsc(scan)

\* ORDER BY repurchase_urgency DESC
OrderByUrgencyDesc(scan) == SortDesc(scan)

\* LIMIT n
Limit(s, n) == SubSeq(s, 1, IF n < Len(s) THEN n ELSE Len(s))

Prediction(a) ==
    [product_name |-> a.product_name,
     urgency |-> a.repurchase_urgency,
     confidence |-> a.repurchase_probability,
     days_since_last |-> IntOrZero(a.days_since_last_purchase),
     avg_interval |-> IntOrZero(a.avg_days_between_purchases),
     status |-> get_urgency_status(a.repurchase_urgency),
     message |-> get_prediction_message(a),
     last_purchase |-> IsoFormatOrNone(a.last_purchase_date),
     estimated_next |-> IsoFormatOrNone(a.estimated_next_purchase_date)]

\* the list get_predicted_purchases returns when the database scans in order scan
PredictedPurchases(scan, limit) ==
    LET analytics_list == Limit(OrderByUrgencyDesc(scan), limit)
    IN  [i \in 1..Len(analytics_list) |-> Prediction(analytics_list[i])]

RECURSIVE SelectSeq2(_, _)
SelectSeq2(s, keep) ==
    IF s = <<>> THEN <<>>
    ELSE (IF keep[1] THEN <<s[1]>> ELSE <<>>)
             \o SelectSeq2(Tail(s), Tail(keep))

\* [p for p in predictions if p["urgency"] >= 90]
UrgentOf(predictions) ==
    SelectSeq2(predictions,
               [i \in 1..Len(predictions) |->
                   RatLeq(ToFloat(90), predictions[i].urgency)])

\* [p for p in predictions if 70 <= p["urgency"] < 90]
UpcomingOf(predictions) ==
    SelectSeq2(predictions,
               [i \in 1..Len(predictions) |->
                   /\ RatLeq(ToFloat(70), predictions[i].urgency)
                   /\ RatLt(predictions[i].urgency, ToFloat(90))])

OptionalBelow90(predictions) ==
    SelectSeq2(predictions,
               [i \in 1..Len(predictions) |->
                   RatLt(predictions[i].urgency, ToFloat(90))])

\* [p for p in predictions if p["urgency"] < 70]
OptionalOf(predictions) ==
    SelectSeq2(predictions,
               [i \in 1..Len(predictions) |->
                   RatLt(predictions[i].urgency, ToFloat(70))])

ShoppingSummary(predictions) ==
    [urgent |-> UrgentOf(predictions),
     upcoming |-> UpcomingOf(predictions),
     optional |-> OptionalOf(predictions),
     total |-> Len(predictions),
     summary |-> [text |-> "You need to shop soon!",
                  urgent_items |-> Len(UrgentOf(predictions)),
                  upcoming |-> Len(UpcomingOf(predictions))]]

ItemPrediction(a) ==
    [product_name |-> a.product_name,
     total_purchases |-> a.total_purchases,
     last_purchase_date |-> IsoFormatOrNone(a.last_purchase_date),
     avg_interval_days |-> a.avg_days_between_purchases,
     days_since_last |-> a.days_since_last_purchase,
     min_interval |-> a.min_days_interval,
     max_interval |-> a.max_days_interval,
     urgency_score |-> a.repurchase_urgency,
     confidence |-> a.repurchase_probability,
     is_seasonal |-> a.is_seasonal,
     next_purchase_estimate |-> IsoFormatOrNone(a.estimated_next_purchase_date),
     status |-> get_urgency_status(a.repurchase_urgency),
     recommendation |-> get_prediction_message(a)]

(***************************************************************************)
(* State machine.                                                          *)
(***************************************************************************)
NoCall == [op |-> "none"]

\* a session in which no call is running
Idle == [pc |-> "idle"]

Init ==
    /\ purchase_records = EmptyTable
    /\ product_analytics = {}
    /\ now = SetMin(NowTimes)
    /\ last_call = NoCall
    /\ sessions = [s \in Sessions |-> Idle]

\* a PurchaseRecord row is inserted by the caller
RecordPurchase(key, t) ==
    /\ TotalRows(purchase_records) < MaxPurchases
    /\ purchase_records' = InsertPurchase(purchase_records, <<key[1], key[2], t>>)
    /\ last_call' = [op |-> "record_purchase"]
    /\ UNCHANGED <<product_analytics, now, sessions>>

\* the clock advances
Tick(t) ==
    /\ t > now
    /\ now' = t
    /\ last_call' = NoCall
    /\ UNCHANGED <<purchase_records, product_analytics, sessions>>

UpdateAnalytics(key) ==
    LET purchases == SelectPurchases(purchase_records, key)
    IN  IF purchases = <<>>
        THEN /\ last_call' = [op |-> "update_analytics", key |-> key, value |-> None]
             /\ UNCHANGED <<purchase_records, product_analytics, now, sessions>>
        ELSE LET existing == First(SelectAnalytics(product_analytics, key))
                 row == WrittenRow(existing, key,
                                   ComputedFields(purchase_records, key, now))
             IN  /\ product_analytics' =
                        (product_analytics \ SelectAnalytics(product_analytics, key))
                            \cup {row}
                 /\ last_call' =
                        [op |-> "update_analytics", key |-> key, value |-> row]
                 /\ UNCHANGED <<purchase_records, now, sessions>>

GetPredictedPurchases(user_id, urgency_threshold, limit) ==
    \E scan \in ScanOrders(WherePredicted(product_analytics, user_id, urgency_threshold)) :
        /\ last_call' = [op |-> "get_predicted_purchases",
                         user_id |-> user_id,
                         urgency_threshold |-> urgency_threshold,
                         limit |-> limit,
                         value |-> PredictedPurchases(scan, limit)]
        /\ UNCHANGED <<purchase_records, product_analytics, now, sessions>>

GetShoppingSummary(user_id) ==
    \E scan \in ScanOrders(WherePredicted(product_analytics, user_id, ToFloat(0))) :
        /\ last_call' = [op |-> "get_shopping_summary",
                         user_id |-> user_id,
                         value |-> ShoppingSummary(PredictedPurchases(scan, SummaryLimit))]
        /\ UNCHANGED <<purchase_records, product_analytics, now, sessions>>

GetItemPrediction(key) ==
    LET analytics == First(SelectAnalytics(product_analytics, key))
    IN  /\ last_call' = [op |-> "get_item_prediction",
                         key |-> key,
                         value |-> IF analytics = None THEN None
                                   ELSE ItemPrediction(analytics)]
        /\ UNCHANGED <<purchase_records, product_analytics, now, sessions>>

Next ==
    \/ \E key \in Keys, t \in PurchaseTimes : RecordPurchase(key, t)
    \/ \E t \in NowTimes : Tick(t)
    \/ \E key \in Keys : UpdateAnalytics(key)

Spec == Init /\ [][Next]_vars

(***************************************************************************)
(* The prediction service reads the product_analytics table only.  Its     *)
(* operations are applied to every table update_analytics can have         *)
(* written: for each multiset of at most MaxPurchases purchases and each   *)
(* reading of the clock, the rows of any set of keys that have purchases.  *)
(***************************************************************************)
RECURSIVE TableOf(_)
TableOf(rows) ==
    IF rows = <<>> THEN EmptyTable
    ELSE InsertPurchase(TableOf(Tail(rows)), rows[1])

PurchaseRows == {<<k[1], k[2], t>> : k \in Keys, t \in PurchaseTimes}

Tables ==
    {TableOf(rows) : rows \in UNION {[1..n -> PurchaseRows] : n \in 0..MaxPurchases}}

KeysWithPurchases(table) == {k \in Keys : SelectPurchases(table, k) # <<>>}

AnalyticsWritten(table, keys, utcnow) ==
    {WrittenRow(None, k, ComputedFields(table, k, utcnow)) : k \in keys}

InitQueries ==
    /\ purchase_records \in Tables
    /\ now \in NowTimes
    /\ \E keys \in SUBSET KeysWithPurchases(purchase_records) :
           product_analytics = AnalyticsWritten(purchase_records, keys, now)
    /\ last_call = NoCall
    /\ sessions = [s \in Sessions |-> Idle]

NextQueries ==
    \/ \E user_id \in Users, th \in Thresholds, limit \in 1..MaxLimit :
           GetPredictedPurchases(user_id, th, limit)
    \/ \E user_id \in Users : GetShoppingSummary(user_id)
    \/ \E key \in Keys : GetItemPrediction(key)

SpecQueries == InitQueries /\ [][NextQueries]_vars

(***************************************************************************)
(* The status label is a function of repurchase_urgency.  It is applied to *)
(* the rows written for one key bought on day 0 and on a later day, read   *)
(* on any day up to StatusMaxNow, which gives urgencies on both sides of   *)
(* every tier boundary and on the boundaries themselves.                   *)
(***************************************************************************)
StatusKey == <<1, "milk">>

InitStatus ==
    /\ \E span \in 1..StatusMaxSpan :
           purchase_records =
               TableOf(<<<<StatusKey[1], StatusKey[2], 0>>,
                         <<StatusKey[1], StatusKey[2], span * TicksPerDay>>>>)
    /\ \E day \in 0..StatusMaxNow : now = day * TicksPerDay + 1
    /\ product_analytics = AnalyticsWritten(purchase_records, {StatusKey}, now)
    /\ last_call = NoCall
    /\ sessions = [s \in Sessions |-> Idle]

NextStatus == \E key \in Keys : GetItemPrediction(key)

SpecStatus == InitStatus /\ [][NextStatus]_vars

(***************************************************************************)
(* update_analytics step by step.  The coroutine gives up control at each  *)
(* await: the three session.execute calls, session.commit and              *)
(* session.rollback.  Between two of them other sessions, the caller and   *)
(* the clock may act.  What a session has read and the row it has assigned *)
(* live in the session until the commit.                                   *)
(***************************************************************************)
\* ProductAnalytics(user_id=..., product_name=...) with the primary key its
\* default draws; the session that creates the object stands for the uuid
NewAnalyticsObject(key, s) ==
    [f \in DOMAIN NewAnalytics(key) \cup {"id"} |->
        IF f = "id" THEN s ELSE NewAnalytics(key)[f]]

\* uq_user_product is not enforced
NoUniqueConstraint(table, row) == FALSE

\* UniqueConstraint("user_id", "product_name"): the INSERT of row is refused
UniqueViolation(table, row) ==
    \E a \in table : a.user_id = row.user_id /\ a.product_name = row.product_name

\* the row the UPDATE of the flush is applied to: the one with the primary
\* key of the object the session loaded
RowLoaded(table, loaded) ==
    {a \in table : /\ a.id = loaded.id
                   /\ a.user_id = loaded.user_id
                   /\ a.product_name = loaded.product_name}

\* the UPDATE sets the columns whose assigned value differs from the loaded one
UpdatedRow(current, loaded, assigned) ==
    [f \in DOMAIN current |->
        IF assigned[f] # loaded[f] THEN assigned[f] ELSE current[f]]

\* the table after the flush and commit of a session
Committed(table, sess) ==
    IF sess.existing = None
    THEN table \cup {sess.row}
    ELSE (table \ RowLoaded(table, sess.existing))
             \cup {UpdatedRow(a, sess.existing, sess.row) :
                      a \in RowLoaded(table, sess.existing)}

\* the pending row reaches the table although the call failed
RolledBackKeepsPending(table, sess) ==
    IF sess.pc = "commit" THEN Committed(table, sess) ELSE table

\* session.rollback(): what the session assigned is discarded
RolledBack(table, sess) == table

Returned(s, key, value, outcome) ==
    [op |-> "update_analytics", key |-> key, session |-> s,
     value |-> value, outcome |-> outcome]

\* lines 48-58: the purchases of the key are read
ExecutePurchases(s, key) ==
    /\ sessions[s].pc = "idle"
    /\ LET purchases == SelectPurchases(purchase_records, key)
       IN  IF purchases = <<>>
           THEN /\ last_call' = Returned(s, key, None, "no_purchases")
                /\ UNCHANGED sessions
           ELSE /\ sessions' = [sessions EXCEPT ![s] =
                                   [pc |-> "count", key |-> key,
                                    purchases |-> purchases, utcnow |-> now]]
                /\ UNCHANGED last_call
    /\ UNCHANGED <<purchase_records, product_analytics, now>>

\* lines 92-97: the distinct purchase dates of the user are counted
ExecuteCount(s) ==
    /\ sessions[s].pc = "count"
    /\ sessions' = [sessions EXCEPT ![s] =
                       [pc |-> "select", key |-> sessions[s].key,
                        purchases |-> sessions[s].purchases,
                        utcnow |-> sessions[s].utcnow,
                        total_purchase_dates |->
                            TotalPurchaseDates(purchase_records, sessions[s].key[1])]]
    /\ UNCHANGED <<purchase_records, product_analytics, now, last_call>>

\* lines 108-132: the row of the key is read or created, and assigned
ExecuteSelect(s) ==
    /\ sessions[s].pc = "select"
    /\ LET key == sessions[s].key
           existing == First(SelectAnalytics(product_analytics, key))
           analytics == IF existing = None THEN NewAnalyticsObject(key, s)
                        ELSE existing
           fields == FieldsFrom(sessions[s].purchases,
                                sessions[s].total_purchase_dates,
                                sessions[s].utcnow, now)
       IN  sessions' = [sessions EXCEPT ![s] =
                           [pc |-> "commit", key |-> key, existing |-> existing,
                            row |-> WrittenRow(analytics, key, fields)]]
    /\ UNCHANGED <<purchase_records, product_analytics, now, last_call>>

\* lines 134-137: the commit succeeds, or the INSERT breaks uq_user_product
\* and the handler of lines 139-142 rolls back
Commit(s) ==
    /\ sessions[s].pc = "commit"
    /\ IF sessions[s].existing = None
          /\ UniqueViolation(product_analytics, sessions[s].row)
       THEN /\ product_analytics' = RolledBack(product_analytics, sessions[s])
            /\ last_call' = Returned(s, sessions[s].key, None, "integrity_error")
       ELSE /\ product_analytics' = Committed(product_analytics, sessions[s])
            /\ last_call' = Returned(s, sessions[s].key,
                                     First(SelectAnalytics(product_analytics',
                                                           sessions[s].key)),
                                     "committed")
    /\ sessions' = [sessions EXCEPT ![s] = Idle]
    /\ UNCHANGED <<purchase_records, now>>

\* lines 139-142: the first session.execute raises
ExecutePurchasesFails(s, key) ==
    /\ sessions[s].pc = "idle"
    /\ product_analytics' = RolledBack(product_analytics, sessions[s])
    /\ last_call' = Returned(s, key, None, "execute_failure")
    /\ UNCHANGED <<purchase_records, now, sessions>>

\* lines 139-142: a later session.execute or session.commit raises
StorageFails(s) ==
    /\ sessions[s].pc \in {"count", "select", "commit"}
    /\ product_analytics' = RolledBack(product_analytics, sessions[s])
    /\ last_call' = Returned(s, sessions[s].key, None,
                             IF sessions[s].pc = "commit" THEN "commit_failure"
                             ELSE "execute_failure")
    /\ sessions' = [sessions EXCEPT ![s] = Idle]
    /\ UNCHANGED <<purchase_records, now>>

\* the keys and the purchase dates of the runs with concurrent sessions
SessionKeys == {<<1, "milk">>, <<1, "soap">>}
SessionTimes == {0}

NextSessions ==
    \/ \E key \in SessionKeys, t \in SessionTimes : RecordPurchase(key, t)
    \/ \E s \in Sessions, key \in SessionKeys : ExecutePurchases(s, key)
    \/ \E s \in Sessions : ExecuteCount(s)
    \/ \E s \in Sessions : ExecuteSelect(s)
    \/ \E s \in Sessions : Commit(s)
    \/ \E s \in Sessions, key \in SessionKeys : ExecutePurchasesFails(s, key)
    \/ \E s \in Sessions : StorageFails(s)

SpecSessions == Init /\ [][NextSessions]_vars

(***************************************************************************)
(* The prediction service when session.execute raises.  Each operation     *)
(* catches the exception in its own handler.                               *)
(***************************************************************************)
\* get_predicted_purchases, lines 84-86
PredictionsOnFailure == <<>>

\* the dictionary of the handler of get_shopping_summary, line 127
SummaryOfHandler ==
    [urgent |-> <<>>, upcoming |-> <<>>, optional |-> <<>>, total |-> 0]

\* get_shopping_summary, lines 108-123: the failure is caught inside
\* get_predicted_purchases, which returns [], and the summary is built from it
SummaryOnFailure == ShoppingSummary(PredictionsOnFailure)

\* get_item_prediction, lines 175-177
ItemPredictionOnFailure == None

GetPredictedPurchasesFails(user_id, urgency_threshold, limit) ==
    /\ last_call' = [op |-> "get_predicted_purchases",
                     user_id |-> user_id,
                     urgency_threshold |-> urgency_threshold,
                     limit |-> limit,
                     storage |-> "failed",
                     value |-> PredictionsOnFailure]
    /\ UNCHANGED <<purchase_records, product_analytics, now, sessions>>

GetShoppingSummaryFails(user_id) ==
    /\ last_call' = [op |-> "get_shopping_summary",
                     user_id |-> user_id,
                     storage |-> "failed",
                     value |-> SummaryOnFailure]
    /\ UNCHANGED <<purchase_records, product_analytics, now, sessions>>

GetItemPredictionFails(key) ==
    /\ last_call' = [op |-> "get_item_prediction",
                     key |-> key,
                     storage |-> "failed",
                     value |-> ItemPredictionOnFailure]
    /\ UNCHANGED <<purchase_records, product_analytics, now, sessions>>

NextQueryFailures ==
    \/ NextQueries
    \/ \E user_id \in Users, th \in Thresholds, limit \in 1..MaxLimit :
           GetPredictedPurchasesFails(user_id, th, limit)
    \/ \E user_id \in Users : GetShoppingSummaryFails(user_id)
    \/ \E key \in Keys : GetItemPredictionFails(key)

SpecQueryFailures == InitQueries /\ [][NextQueryFailures]_vars

(***************************************************************************)
(* Properties.                                                             *)
(***************************************************************************)
\* the call that has just returned is a successful update_analytics
UpdateReturned == last_call.op = "update_analytics" /\ last_call.value # None

\* the row of the table for the key of the call that has just returned
StoredRow == First(SelectAnalytics(product_analytics, last_call.key))

\* the purchases of that key, oldest first
EventsOfCall == SelectPurchases(purchase_records, last_call.key)

SpanDays(events) == Days(events[Len(events)] - events[1])

\* the float x and the fraction n / d are the same number
SameNumber(x, n, d) == x # None /\ x[1] * d = n * x[2]

\* C1: after a successful update_analytics for a key with n >= 2 purchases,
\* the stored avg_days_between_purchases is (whole days from the first to
\* the last purchase) / (n - 1).
C1_SpanAverage ==
    (UpdateReturned /\ Len(EventsOfCall) >= 2) =>
        /\ StoredRow # None
        /\ SameNumber(StoredRow.avg_days_between_purchases,
                      SpanDays(EventsOfCall), Len(EventsOfCall) - 1)

\* C1 witness: an update over three purchases whose whole-day gaps do not
\* add up to the whole-day span, so the span average is not the mean gap.
C1_Witness ==
    /\ UpdateReturned
    /\ Len(EventsOfCall) >= 3
    /\ SeqSum(Intervals(EventsOfCall)) # SpanDays(EventsOfCall)

\* C2: after a successful update_analytics for a key with exactly one
\* purchase, the average, minimum and maximum interval and the estimated
\* next purchase date are None and the urgency is 0, whatever the clock.
C2_SinglePurchase ==
    (UpdateReturned /\ Len(EventsOfCall) = 1) =>
        /\ StoredRow # None
        /\ StoredRow.avg_days_between_purchases = None
        /\ StoredRow.min_days_interval = None
        /\ StoredRow.max_days_interval = None
        /\ StoredRow.estimated_next_purchase_date = None
        /\ StoredRow.repurchase_urgency = ToFloat(0)

\* C2 witness: an update over a single purchase made on an earlier day.
C2_Witness ==
    /\ UpdateReturned
    /\ Len(EventsOfCall) = 1
    /\ Days(now - EventsOfCall[1]) > 0

\* C3 (as claimed): in a stored row estimated_next_purchase_date is present
\* exactly when avg_days_between_purchases is, and is then the last purchase
\* date plus that many days.
C3_EstimateIffAverage ==
    \A a \in product_analytics :
        /\ (a.estimated_next_purchase_date # None)
               <=> (a.avg_days_between_purchases # None)
        /\ (a.avg_days_between_purchases # None) =>
               a.estimated_next_purchase_date =
                   RatAdd(a.last_purchase_date,
                          RatMul(a.avg_days_between_purchases, ToFloat(TicksPerDay)))

\* C4 (as claimed): after a successful update_analytics for a key with
\* n >= 2 purchases the stored minimum and maximum interval are present and
\* are the least and the greatest whole-day gap between consecutive purchases.
C4_MinMaxPresent ==
    (UpdateReturned /\ Len(EventsOfCall) >= 2) =>
        /\ SameNumber(StoredRow.min_days_interval, SeqMin(Intervals(EventsOfCall)), 1)
        /\ SameNumber(StoredRow.max_days_interval, SeqMax(Intervals(EventsOfCall)), 1)
        /\ RatLeq(StoredRow.min_days_interval, StoredRow.max_days_interval)

\* C5 (as claimed): every stored row has repurchase_urgency >= 0; it is 0
\* when the average interval is None or <= 0 and otherwise
\* (days_since_last_purchase / avg_days_between_purchases) * 100.
C5_UrgencyNonNegative ==
    \A a \in product_analytics :
        /\ RatLeq(ToFloat(0), a.repurchase_urgency)
        /\ IF a.avg_days_between_purchases = None
              \/ RatLeq(a.avg_days_between_purchases, ToFloat(0))
           THEN a.repurchase_urgency = ToFloat(0)
           ELSE SameNumber(a.repurchase_urgency,
                           100 * a.days_since_last_purchase[1]
                               * a.avg_days_between_purchases[2],
                           a.days_since_last_purchase[2]
                               * a.avg_days_between_purchases[1])

\* the distinct purchase dates of a user over all items
Occasions(user_id) ==
    {r[3] : r \in {x \in DOMAIN purchase_records : x[1] = user_id}}

Qualifying(user_id, urgency_threshold) ==
    {a \in product_analytics :
        /\ a.user_id = user_id
        /\ ~RatLt(a.repurchase_urgency, urgency_threshold)
        /\ a.repurchase_probability[1] > 0}

\* the row a prediction was made from
RowOf(user_id, prediction) ==
    {a \in product_analytics :
        /\ a.user_id = user_id
        /\ a.product_name = prediction.product_name
        /\ a.repurchase_urgency = prediction.urgency}

\* C7: get_predicted_purchases returns rows of the user with urgency >=
\* urgency_threshold and probability > 0, each once, in non-increasing
\* order of urgency, min(limit, number of such rows) of them, and no such
\* row left out is more urgent than a returned one.
C7_Ranking ==
    last_call.op = "get_predicted_purchases" =>
        LET v == last_call.value
            Q == Qualifying(last_call.user_id, last_call.urgency_threshold)
            size == IF last_call.limit < Cardinality(Q)
                    THEN last_call.limit ELSE Cardinality(Q)
            returned == UNION {RowOf(last_call.user_id, v[i]) : i \in 1..Len(v)}
        IN  /\ Len(v) = size
            /\ \A i \in 1..Len(v) :
                   RowOf(last_call.user_id, v[i]) \cap Q # {}
            /\ \A i, j \in 1..Len(v) :
                   i # j => v[i].product_name # v[j].product_name
            /\ \A i, j \in 1..Len(v) :
                   i < j => RatLeq(v[j].urgency, v[i].urgency)
            /\ \A a \in Q \ returned : \A i \in 1..Len(v) :
                   RatLeq(a.repurchase_urgency, v[i].urgency)

\* C7 witness: a call with limit 1 for a user with two qualifying rows of
\* different urgency.
C7_Witness ==
    /\ last_call.op = "get_predicted_purchases"
    /\ last_call.limit = 1
    /\ Len(last_call.value) = 1
    /\ \E a, b \in Qualifying(last_call.user_id, last_call.urgency_threshold) :
           RatLt(a.repurchase_urgency, b.repurchase_urgency)

NamesOf(predictions) == {predictions[i].product_name : i \in 1..Len(predictions)}

\* C8: in a result of get_shopping_summary the lists urgent, upcoming and
\* optional are pairwise disjoint, every row of the user with urgency >= 0
\* and probability > 0 is in the list of its urgency, and the three lengths
\* add up to total.
C8_SummaryPartition ==
    last_call.op = "get_shopping_summary" =>
        LET v == last_call.value
            Q == Qualifying(last_call.user_id, ToFloat(0))
        IN  /\ NamesOf(v.urgent) \cap NamesOf(v.upcoming) = {}
            /\ NamesOf(v.urgent) \cap NamesOf(v.optional) = {}
            /\ NamesOf(v.upcoming) \cap NamesOf(v.optional) = {}
            /\ \A a \in Q :
                   /\ ~RatLt(a.repurchase_urgency, ToFloat(90))
                          <=> a.product_name \in NamesOf(v.urgent)
                   /\ (/\ ~RatLt(a.repurchase_urgency, ToFloat(70))
                       /\ RatLt(a.repurchase_urgency, ToFloat(90)))
                          <=> a.product_name \in NamesOf(v.upcoming)
                   /\ RatLt(a.repurchase_urgency, ToFloat(70))
                          <=> a.product_name \in NamesOf(v.optional)
            /\ v.total = Cardinality(Q)
            /\ Len(v.urgent) + Len(v.upcoming) + Len(v.optional) = v.total

\* C8 witness: a summary with an upcoming and an optional prediction.
C8_Witness ==
    /\ last_call.op = "get_shopping_summary"
    /\ Len(last_call.value.upcoming) >= 1
    /\ Len(last_call.value.optional) >= 1
    /\ last_call.value.total = 2

\* C9: the status of a row is OVERDUE when urgency >= 100, URGENT when
\* 85 <= urgency < 100, SOON when 70 <= urgency < 85, UPCOMING when
\* 50 <= urgency < 70 and OPTIONAL when urgency < 50.
C9_StatusTiers ==
    (last_call.op = "get_item_prediction" /\ last_call.value # None) =>
        LET u == last_call.value.urgency_score
            st == last_call.value.status
            AtLeast(n) == u[1] >= n * u[2]
        IN  /\ st \in {"OVERDUE", "URGENT", "SOON", "UPCOMING", "OPTIONAL"}
            /\ st = "OVERDUE" <=> AtLeast(100)
            /\ st = "URGENT" <=> (AtLeast(85) /\ ~AtLeast(100))
            /\ st = "SOON" <=> (AtLeast(70) /\ ~AtLeast(85))
            /\ st = "UPCOMING" <=> (AtLeast(50) /\ ~AtLeast(70))
            /\ st = "OPTIONAL" <=> ~AtLeast(50)

\* C9 witness: a prediction for a row whose urgency is exactly 85.
C9_Witness ==
    /\ last_call.op = "get_item_prediction"
    /\ last_call.value # None
    /\ last_call.value.urgency_score = ToFloat(85)
    /\ last_call.value.status = "URGENT"

\* C10 (as claimed): the message of a stored row is of the "You usually buy"
\* form exactly when both avg_days_between_purchases and
\* days_since_last_purchase are present, a value of 0 included, and of the
\* "Not enough data" form otherwise.
C10_MessageWhenPresent ==
    \A a \in product_analytics :
        /\ get_prediction_message(a).text \in {"You usually buy", "Not enough data"}
        /\ get_prediction_message(a).text = "You usually buy"
               <=> (/\ a.avg_days_between_purchases # None
                    /\ a.days_since_last_purchase # None)

\* C11: the product_analytics table changes only in the commit step of an
\* update_analytics call that returns a row; a call that returns None, for
\* want of purchases or after a failure at any step, changes it at no step.
C11_AbsentLeavesStore ==
    [][product_analytics' # product_analytics =>
          /\ last_call'.op = "update_analytics"
          /\ last_call'.value # None
          /\ sessions[last_call'.session].pc = "commit"
          /\ sessions'[last_call'.session] = Idle]_vars

\* C11 witness: a commit has failed for a key whose stored row is out of
\* date, so the row the call had assigned differed from the stored one.
C11_Witness ==
    /\ last_call.op = "update_analytics"
    /\ last_call.value = None
    /\ last_call.outcome = "commit_failure"
    /\ \E a \in SelectAnalytics(product_analytics, last_call.key) :
           a.total_purchases # Len(SelectPurchases(purchase_records, last_call.key))

\* the call that has just returned is a prediction call whose query failed
QueryFailed(op) == last_call.op = op /\ "storage" \in DOMAIN last_call

\* C12: when the query of a prediction operation fails,
\* get_predicted_purchases returns an empty list, get_shopping_summary a
\* dictionary with the keys urgent, upcoming, optional, total and summary,
\* the three lists empty and total 0, and get_item_prediction None.
C12_EmptyOnFailure ==
    /\ QueryFailed("get_predicted_purchases") => last_call.value = <<>>
    /\ QueryFailed("get_shopping_summary") =>
           /\ DOMAIN last_call.value =
                  {"urgent", "upcoming", "optional", "total", "summary"}
           /\ last_call.value.urgent = <<>>
           /\ last_call.value.upcoming = <<>>
           /\ last_call.value.optional = <<>>
           /\ last_call.value.total = 0
    /\ QueryFailed("get_item_prediction") => last_call.value = None

\* C12 witness: the query of get_shopping_summary has failed for a user who
\* has rows that a successful call would have returned.
C12_Witness ==
    /\ QueryFailed("get_shopping_summary")
    /\ Qualifying(last_call.user_id, ToFloat(0)) # {}

\* C13: the table never holds two rows for one (user_id, product_name); it
\* holds exactly one for the key of an update_analytics that has returned a
\* row; and a key that has a row keeps one.
C13_OneRowPerKey ==
    /\ [](\A key \in Keys : Cardinality(SelectAnalytics(product_analytics, key)) <= 1)
    /\ []((last_call.op = "update_analytics" /\ last_call.value # None) =>
              Cardinality(SelectAnalytics(product_analytics, last_call.key)) = 1)
    /\ [][\A key \in Keys :
              SelectAnalytics(product_analytics, key) # {} =>
                  SelectAnalytics(product_analytics', key) # {}]_vars

\* C13 witness: two sessions found no row for a key and both created one;
\* the second INSERT was refused and the table holds the row of the first.
C13_Witness ==
    /\ last_call.op = "update_analytics"
    /\ last_call.outcome = "integrity_error"
    /\ \E a \in SelectAnalytics(product_analytics, last_call.key) :
           a.id # last_call.session

====
